---------------------------- MODULE Spec2Model ----------------------------
(***************************************************************************)
(* A model of the central limit order book of src/src/orderbook.rs.        *)
(*                                                                         *)
(* Prices are f64 in the source.  Here a price is a whole number of        *)
(* sub-ticks: one tick (10^-5, the grid of the price keys) is SubTick      *)
(* sub-ticks, so that a price may lie strictly between two keys, as an     *)
(* f64 may.  price_to_key truncates and key_to_price is exact, as in the   *)
(* source.  Quantities are f64 in the source and whole numbers here        *)
(* (f64 arithmetic is exact on them).  An Option<f64> is a sequence of     *)
(* length 0 (None) or 1 (Some).                                            *)
(***************************************************************************)
EXTENDS Integers, Sequences, FiniteSets

\* ------------------------------------------------------------------ bounds
MaxOrders == 3      \* number of add_order commands in a run
MaxPrice == 4       \* prices are 1..MaxPrice sub-ticks
MaxQty == 2         \* quantities are 0..MaxQty
SubTick == 2        \* sub-ticks per tick
NProducers == 2     \* Sender handles of the inbound channel

\* --------------------------------------------------------------- constants
Scale == 100000     \* price_to_key multiplies by 100000.0
Capacity == 100     \* mpsc::channel::<OrderbookCommand>(100)

VARIABLES
    bids,       \* Orderbook.bids  : key -> queue of resting Buy orders
    asks,       \* Orderbook.asks  : key -> queue of resting Sell orders
    orders,     \* Orderbook.orders: id -> order
    nextId,     \* the id the next submitted order gets (ids are unique)
    order,      \* the order of the last add_order call, as submitted
    matched,    \* that order after the matching walk
    trades,     \* the trades the matching walk of the last call produced
    response,   \* the OrderResponse of the last call
    pre,        \* the book as it was when the last call started
    inbound,    \* the commands in the inbound channel, oldest first
    senders,    \* the number of Sender handles not yet dropped
    oneshot,    \* the one-shot reply channels, in the order of their commands
    engine,     \* "running" while run_orderbook_engine is in its loop, then "done"
    sent,       \* every command enqueued so far, in enqueue order
    executed    \* every command the engine has executed, in execution order

book_vars == <<bids, asks, orders, order, matched, trades, response, pre>>
channel_vars == <<inbound, senders, oneshot, engine, sent, executed>>
vars == <<bids, asks, orders, nextId, order, matched, trades, response, pre,
          inbound, senders, oneshot, engine, sent, executed>>

\* ------------------------------------------------------------------ helpers
None == <<>>
Some(x) == <<x>>
unwrap(opt) == opt[1]

\* (fault) the taker's remaining quantity is taken without the min
TakerQuantity(a, b) == a

Min(a, b) == IF a <= b THEN a ELSE b

EmptyMap == [k \in {} |-> <<>>]

MapRemove(m, k) == [x \in (DOMAIN m) \ {k} |-> m[x]]

MapPut(m, k, v) == [x \in (DOMAIN m) \cup {k} |-> IF x = k THEN v ELSE m[x]]

RECURSIVE Ascending(_)
Ascending(S) ==
    IF S = {} THEN <<>>
    ELSE LET m == CHOOSE x \in S : \A y \in S : x <= y
         IN  <<m>> \o Ascending(S \ {m})

RECURSIVE Descending(_)
Descending(S) ==
    IF S = {} THEN <<>>
    ELSE LET m == CHOOSE x \in S : \A y \in S : x >= y
         IN  <<m>> \o Descending(S \ {m})

\* ------------------------------------------------------------- price codec
\* (price * 100000.0) as u64 : the product, truncated toward zero
price_to_key(price) == (price * Scale) \div (Scale * SubTick)

\* cent as f64 / 100000.0
key_to_price(cent) == (cent * Scale * SubTick) \div Scale

\* ----------------------------------------------------------------- matching
\* (fault) the taker is always recorded as the buyer
new_trade_taker_buys(o, matching_order, trade_quantity) ==
    [buy_order_id  |-> o.id,
     sell_order_id |-> matching_order.id,
     price         |-> unwrap(matching_order.price),
     quantity      |-> trade_quantity]

\* Trade { buy_order_id, sell_order_id, price, quantity }; the trade's own id
\* (a fresh uuid) and its timestamp are left out.  The two loops build it alike.
new_trade(o, matching_order, trade_quantity) ==
    [buy_order_id  |-> IF o.side = "Buy" THEN o.id ELSE matching_order.id,
     sell_order_id |-> IF o.side = "Buy" THEN matching_order.id ELSE o.id,
     price         |-> unwrap(matching_order.price),
     quantity      |-> trade_quantity]

\* (fault) push_back in place of push_front
push_back_if_remaining(matching_order, popped) ==
    IF matching_order.remaining_quantity > 0 THEN popped \o <<matching_order>> ELSE popped

\* (fault) the maker is popped and never put back
pop_without_push_front(matching_order, popped) == popped

\* a maker with quantity left goes back to the head of its queue
push_front_if_remaining(matching_order, popped) ==
    IF matching_order.remaining_quantity > 0 THEN <<matching_order>> \o popped ELSE popped

\* (fault) the level stays in the map with whatever queue is left
keep_level(book, price_key, queue) == [book EXCEPT ![price_key] = queue]

\* a level whose queue became empty is removed from the map
remove_if_empty(book, price_key, queue) ==
    IF queue = <<>> THEN MapRemove(book, price_key) ELSE [book EXCEPT ![price_key] = queue]

\* (fault) the keys are not reversed for a Sell taker
BookKeysAscending(side, book) == Ascending(DOMAIN book)

\* book.keys() of the side opposite to the taker, best price first
BookKeys(side, book) ==
    IF side = "Buy" THEN Ascending(DOMAIN book) ELSE Descending(DOMAIN book)

\* the while-let loop of match_market_order over one price level
RECURSIVE MarketQueueLoop(_, _, _, _)
MarketQueueLoop(order_at_price, o, ts, idx) ==
    IF order_at_price = <<>>
    THEN [queue |-> order_at_price, order |-> o, trades |-> ts, orders |-> idx]
    ELSE LET matching_order == Head(order_at_price)
             popped == Tail(order_at_price)
             trade_quantity == Min(o.remaining_quantity, matching_order.remaining_quantity)
             trade == new_trade(o, matching_order, trade_quantity)
             o2 == [o EXCEPT !.remaining_quantity = @ - trade_quantity]
             m2 == [matching_order EXCEPT !.remaining_quantity = @ - trade_quantity]
             q2 == push_front_if_remaining(m2, popped)
             idx2 == IF m2.remaining_quantity > 0 THEN idx ELSE MapRemove(idx, m2.id)
         IN  IF o2.remaining_quantity <= 0
             THEN [queue |-> q2, order |-> o2, trades |-> Append(ts, trade), orders |-> idx2]
             ELSE MarketQueueLoop(q2, o2, Append(ts, trade), idx2)

\* the for loop of match_market_order over the keys collected up front
RECURSIVE MarketKeyLoop(_, _, _, _, _)
MarketKeyLoop(keys, book, o, ts, idx) ==
    IF keys = <<>> \/ o.remaining_quantity <= 0
    THEN [book |-> book, order |-> o, trades |-> ts, orders |-> idx]
    ELSE LET price_key == Head(keys)
         IN  IF price_key \in DOMAIN book
             THEN LET r == MarketQueueLoop(book[price_key], o, ts, idx)
                      book2 == remove_if_empty(book, price_key, r.queue)
                  IN  MarketKeyLoop(Tail(keys), book2, r.order, r.trades, r.orders)
             ELSE MarketKeyLoop(Tail(keys), book, o, ts, idx)

match_market_order(book, o, idx) ==
    MarketKeyLoop(BookKeys(o.side, book), book, o, <<>>, idx)

\* the while-let loop of match_limit_order over one price level
RECURSIVE LimitQueueLoop(_, _, _)
LimitQueueLoop(order_at_price, o, ts) ==
    IF order_at_price = <<>>
    THEN [queue |-> order_at_price, order |-> o, trades |-> ts]
    ELSE LET matching_order == Head(order_at_price)
             popped == Tail(order_at_price)
             trading_quantity == Min(o.remaining_quantity, matching_order.remaining_quantity)
             trade == new_trade(o, matching_order, trading_quantity)
             o2 == [o EXCEPT !.remaining_quantity = @ - trading_quantity]
             m2 == [matching_order EXCEPT !.remaining_quantity = @ - trading_quantity]
             q2 == push_front_if_remaining(m2, popped)
         IN  IF o2.remaining_quantity <= 0
             THEN [queue |-> q2, order |-> o2, trades |-> Append(ts, trade)]
             ELSE LimitQueueLoop(q2, o2, Append(ts, trade))

\* the taker's price against the price of a level
should_match(side, order_price, matching_price) ==
    IF side = "Buy" THEN order_price >= matching_price ELSE order_price <= matching_price

\* the for loop of match_limit_order over the keys collected up front
RECURSIVE LimitKeyLoop(_, _, _, _)
LimitKeyLoop(keys, book, o, ts) ==
    IF keys = <<>>
    THEN [book |-> book, order |-> o, trades |-> ts]
    ELSE LET price_key == Head(keys)
             matching_price == key_to_price(price_key)
         IN  IF ~should_match(o.side, unwrap(o.price), matching_price)
             THEN [book |-> book, order |-> o, trades |-> ts]
             ELSE IF o.remaining_quantity <= 0
             THEN [book |-> book, order |-> o, trades |-> ts]
             ELSE IF price_key \in DOMAIN book
             THEN LET r == LimitQueueLoop(book[price_key], o, ts)
                      book2 == remove_if_empty(book, price_key, r.queue)
                  IN  LimitKeyLoop(Tail(keys), book2, r.order, r.trades)
             ELSE LimitKeyLoop(Tail(keys), book, o, ts)

match_limit_order(book, o) ==
    LimitKeyLoop(BookKeys(o.side, book), book, o, <<>>)

\* (fault) the key is the price rounded up to the next tick, not truncated
add_to_book_rounded_up(book, o) ==
    LET price_key == price_to_key(unwrap(o.price) + SubTick - 1)
    IN  IF price_key \in DOMAIN book
        THEN [book EXCEPT ![price_key] = Append(@, o)]
        ELSE MapPut(book, price_key, <<o>>)

\* (fault) push_front in place of push_back
add_to_book_front(book, o) ==
    LET price_key == price_to_key(unwrap(o.price))
    IN  IF price_key \in DOMAIN book
        THEN [book EXCEPT ![price_key] = <<o>> \o @]
        ELSE MapPut(book, price_key, <<o>>)

\* add_to_book: push_back on the queue of the order's key, created if absent
add_to_book(book, o) ==
    LET price_key == price_to_key(unwrap(o.price))
    IN  IF price_key \in DOMAIN book
        THEN [book EXCEPT ![price_key] = Append(@, o)]
        ELSE MapPut(book, price_key, <<o>>)

\* ---------------------------------------------------------------- add_order
\* The outcome of add_order(o) on the book (b, a, idx): the new book, the
\* order after the walk, the trades of the walk and the response.
Outcome(b, a, idx, o, ts, resp) ==
    [bids |-> b, asks |-> a, orders |-> idx, order |-> o, trades |-> ts, response |-> resp]

add_market_order(b, a, idx, o) ==
    LET original_quantity == o.quantity
        r == match_market_order(IF o.side = "Buy" THEN a ELSE b, o, idx)
        b2 == IF o.side = "Buy" THEN b ELSE r.book
        a2 == IF o.side = "Buy" THEN r.book ELSE a
    IN  IF r.order.remaining_quantity > 0
        THEN Outcome(b2, a2, r.orders, r.order, r.trades,
                     [type |-> "Error", message |-> "Insufficient liquidity for market order"])
        ELSE IF r.trades = <<>>
        THEN Outcome(b2, a2, r.orders, r.order, r.trades,
                     [type |-> "Error", message |-> "No matching orders available"])
        ELSE Outcome(b2, a2, r.orders, r.order, r.trades,
                     [type |-> "Filled", order_id |-> r.order.id,
                      filled_quantity |-> original_quantity, trades |-> r.trades])

\* (fault) a Limit order without a price is matched as a Market order
add_limit_order_unguarded(b, a, idx, o) ==
    IF o.price = None
    THEN add_market_order(b, a, idx, o)
    ELSE LET r == match_limit_order(IF o.side = "Buy" THEN a ELSE b, o)
             b2 == IF o.side = "Buy" THEN b ELSE r.book
             a2 == IF o.side = "Buy" THEN r.book ELSE a
         IN  IF r.order.remaining_quantity > 0
             THEN Outcome(IF o.side = "Buy" THEN add_to_book(b2, r.order) ELSE b2,
                          IF o.side = "Buy" THEN a2 ELSE add_to_book(a2, r.order),
                          idx, r.order, r.trades,
                          IF r.trades = <<>>
                          THEN [type |-> "Placed", order_id |-> r.order.id]
                          ELSE [type |-> "PartiallyFilled", order_id |-> r.order.id,
                                filled_quantity |-> o.quantity - r.order.quantity,
                                remaining_quantity |-> r.order.remaining_quantity,
                                trades |-> r.trades])
             ELSE Outcome(b2, a2, idx, r.order, r.trades,
                          [type |-> "Filled", order_id |-> r.order.id,
                           filled_quantity |-> r.order.quantity, trades |-> r.trades])

add_limit_order(b, a, idx, o) ==
    LET original_quantity == o.quantity
    IN  IF o.price = None
        THEN Outcome(b, a, idx, o, <<>>,
                     [type |-> "Error", message |-> "limit order must have price"])
        ELSE LET r == match_limit_order(IF o.side = "Buy" THEN a ELSE b, o)
                 b2 == IF o.side = "Buy" THEN b ELSE r.book
                 a2 == IF o.side = "Buy" THEN r.book ELSE a
             IN  IF r.order.remaining_quantity > 0
                 THEN LET b3 == IF o.side = "Buy" THEN add_to_book(b2, r.order) ELSE b2
                          a3 == IF o.side = "Buy" THEN a2 ELSE add_to_book(a2, r.order)
                      IN  IF r.trades = <<>>
                          THEN Outcome(b3, a3, idx, r.order, r.trades,
                                       [type |-> "Placed", order_id |-> r.order.id])
                          ELSE Outcome(b3, a3, idx, r.order, r.trades,
                                       [type |-> "PartiallyFilled", order_id |-> r.order.id,
                                        filled_quantity |-> original_quantity - r.order.quantity,
                                        remaining_quantity |-> r.order.remaining_quantity,
                                        trades |-> r.trades])
                 ELSE Outcome(b2, a2, idx, r.order, r.trades,
                              [type |-> "Filled", order_id |-> r.order.id,
                               filled_quantity |-> r.order.quantity, trades |-> r.trades])

add_order(b, a, idx, o) ==
    IF o.order_type = "MarketOrder"
    THEN add_market_order(b, a, idx, o)
    ELSE add_limit_order(b, a, idx, o)

\* ------------------------------------------------------------- get_snapshot
\* orders.iter().map(|o| o.remaining_quantity).sum()
RECURSIVE total_quantity(_)
total_quantity(queue) ==
    IF queue = <<>> THEN 0
    ELSE Head(queue).remaining_quantity + total_quantity(Tail(queue))

\* one (key_to_price(key), total_quantity) pair per level, in the order of keys
Levels(keys, book) ==
    [i \in 1..Len(keys) |-> <<key_to_price(keys[i]), total_quantity(book[keys[i]])>>]

\* (fault) the bids are not reversed
get_snapshot_unreversed(b, a) ==
    [bids |-> Levels(Ascending(DOMAIN b), b), asks |-> Levels(Ascending(DOMAIN a), a)]

\* OrderbookSnapshot { bids, asks }: bids.iter().rev(), asks.iter()
get_snapshot(b, a) ==
    [bids |-> Levels(Descending(DOMAIN b), b), asks |-> Levels(Ascending(DOMAIN a), a)]

\* ------------------------------------------------------------ state machine
Sides == {"Buy", "Sell"}
OrderTypes == {"LimitOrder", "MarketOrder"}
Prices == 1..MaxPrice
Quantities == 0..MaxQty

\* an Order as a producer builds it: remaining_quantity = quantity
NewOrder(id, side, type, price, quantity) ==
    [id |-> id, side |-> side, order_type |-> type, price |-> price,
     quantity |-> quantity, remaining_quantity |-> quantity]

NoOrder == NewOrder(0, "Buy", "MarketOrder", None, 0)

\* Orderbook::new(), no command executed yet
Init ==
    /\ bids = EmptyMap
    /\ asks = EmptyMap
    /\ orders = EmptyMap
    /\ nextId = 1
    /\ order = NoOrder
    /\ matched = NoOrder
    /\ trades = <<>>
    /\ response = [type |-> "None"]
    /\ pre = [bids |-> EmptyMap, asks |-> EmptyMap, orders |-> EmptyMap]
    /\ inbound = <<>>
    /\ senders = NProducers
    /\ oneshot = <<>>
    /\ engine = "running"
    /\ sent = <<>>
    /\ executed = <<>>

\* orderbook.add_order(order) on the engine's book
ExecAddOrder(o) ==
    LET r == add_order(bids, asks, orders, o)
    IN  /\ bids' = r.bids
        /\ asks' = r.asks
        /\ orders' = r.orders
        /\ order' = o
        /\ matched' = r.order
        /\ trades' = r.trades
        /\ response' = r.response
        /\ pre' = [bids |-> bids, asks |-> asks, orders |-> orders]

\* orderbook.get_snapshot() on the engine's book; the book is not written, and
\* the snapshot is the reply of the command
ExecGetSnapshot ==
    LET snapshot == get_snapshot(bids, asks)
    IN  /\ response' = [type |-> "Snapshot", bids |-> snapshot.bids, asks |-> snapshot.asks]
        /\ order' = NoOrder
        /\ matched' = NoOrder
        /\ trades' = <<>>
        /\ pre' = [bids |-> bids, asks |-> asks, orders |-> orders]
        /\ UNCHANGED <<bids, asks, orders>>

\* the engine executes AddOrder{order} as soon as it is submitted
AddOrder(o) ==
    /\ ExecAddOrder(o)
    /\ nextId' = nextId + 1
    /\ UNCHANGED channel_vars

\* the engine executes GetSnapshot as soon as it is submitted
GetSnapshot ==
    /\ ExecGetSnapshot
    /\ UNCHANGED nextId
    /\ UNCHANGED channel_vars

\* the orders a producer may submit, with the id the next order gets
Submitted ==
    {NewOrder(nextId, side, type, price, quantity) :
        side \in Sides, type \in OrderTypes, quantity \in Quantities,
        price \in {None} \cup {Some(p) : p \in Prices}}

Next ==
    \/ /\ nextId <= MaxOrders
       /\ \E o \in Submitted :
             /\ o.order_type = "MarketOrder" => o.price = None
             /\ AddOrder(o)
    \/ GetSnapshot

Spec == Init /\ [][Next]_vars

\* ------------------------------------------------------------ engine loop
\* OrderbookCommand::AddOrder { order, response } and ::GetSnapshot { response };
\* response is the one-shot channel of the command, named by its number
AddOrderCommand(o, n) == [kind |-> "AddOrder", order |-> o, response |-> n]
GetSnapshotCommand(n) == [kind |-> "GetSnapshot", order |-> NoOrder, response |-> n]

\* a one-shot channel: the receiver is held ("open") or was dropped, and the
\* value is the reply once it was sent
NewOneshot == [rx |-> "open", value |-> None]

\* the commands the producers send: Limit orders at the price of one tick, of
\* quantity 1 or MaxQty, Sell Market orders of quantity 1, and GetSnapshot
Commands ==
    {AddOrderCommand(o, nextId) :
        o \in {x \in Submitted :
                 \/ /\ x.order_type = "LimitOrder"
                    /\ x.price = Some(SubTick)
                    /\ x.quantity \in {1, MaxQty}
                 \/ /\ x.order_type = "MarketOrder"
                    /\ x.price = None
                    /\ x.side = "Sell"
                    /\ x.quantity = 1}}
    \cup {GetSnapshotCommand(nextId)}

\* a producer enqueues a command: tx.send(command).await
Send(command) ==
    /\ senders > 0
    /\ nextId <= MaxOrders
    /\ Len(inbound) < Capacity
    /\ inbound' = Append(inbound, command)
    /\ oneshot' = Append(oneshot, NewOneshot)
    /\ sent' = Append(sent, command)
    /\ nextId' = nextId + 1
    /\ UNCHANGED <<senders, engine, executed>>
    /\ UNCHANGED book_vars

\* a producer drops the receiver of a reply it is still waiting for
DropReceiver(n) ==
    /\ n \in DOMAIN oneshot
    /\ oneshot[n] = NewOneshot
    /\ oneshot' = [oneshot EXCEPT ![n].rx = "dropped"]
    /\ UNCHANGED <<nextId, inbound, senders, engine, sent, executed>>
    /\ UNCHANGED book_vars

\* a Sender handle is dropped
DropSender ==
    /\ senders > 0
    /\ senders' = senders - 1
    /\ UNCHANGED <<nextId, inbound, oneshot, engine, sent, executed>>
    /\ UNCHANGED book_vars

\* (fault) the newest command is received first
recv_newest(channel) ==
    [command |-> channel[Len(channel)], rest |-> SubSeq(channel, 1, Len(channel) - 1)]

\* rx.recv().await with a command in the channel: the oldest one
recv(channel) == [command |-> Head(channel), rest |-> Tail(channel)]

\* let _ = response.send(result): the value is dropped if the receiver is gone
send(ch, value) == IF ch.rx = "open" THEN [ch EXCEPT !.value = Some(value)] ELSE ch

\* the match on the command: add_order or get_snapshot on the engine's book
Execute(command) ==
    IF command.kind = "AddOrder" THEN ExecAddOrder(command.order) ELSE ExecGetSnapshot

\* (fault) a command whose reply receiver is gone is skipped
EngineRecvSkipClosed ==
    /\ engine = "running"
    /\ inbound # <<>>
    /\ LET m == recv(inbound)
       IN  /\ IF oneshot[m.command.response].rx = "open"
              THEN Execute(m.command)
              ELSE UNCHANGED book_vars
           /\ inbound' = m.rest
           /\ oneshot' = [oneshot EXCEPT ![m.command.response] = send(@, response')]
           /\ executed' = Append(executed, m.command)
    /\ UNCHANGED <<nextId, senders, engine, sent>>

\* one turn of the loop: receive a command, execute it, send the reply
EngineRecv ==
    /\ engine = "running"
    /\ inbound # <<>>
    /\ LET m == recv(inbound)
       IN  /\ Execute(m.command)
           /\ inbound' = m.rest
           /\ oneshot' = [oneshot EXCEPT ![m.command.response] = send(@, response')]
           /\ executed' = Append(executed, m.command)
    /\ UNCHANGED <<nextId, senders, engine, sent>>

\* (fault) the loop ends as soon as the channel is empty
EngineStopWhenIdle ==
    /\ engine = "running"
    /\ inbound = <<>>
    /\ engine' = "done"
    /\ UNCHANGED <<nextId, inbound, senders, oneshot, sent, executed>>
    /\ UNCHANGED book_vars

\* rx.recv().await returns None: the channel is empty and every Sender is dropped
EngineStop ==
    /\ engine = "running"
    /\ inbound = <<>>
    /\ senders = 0
    /\ engine' = "done"
    /\ UNCHANGED <<nextId, inbound, senders, oneshot, sent, executed>>
    /\ UNCHANGED book_vars

EngineNext ==
    \/ \E command \in Commands : Send(command)
    \/ \E n \in 1..MaxOrders : DropReceiver(n)
    \/ DropSender
    \/ EngineRecv
    \/ EngineStop

SpecEngine == Init /\ [][EngineNext]_vars

\* The same loop with producers that send only Limit orders of quantity 1 and
\* GetSnapshot.  The runtime runs the engine task whenever its recv() can
\* return: a command is in the channel, or the channel is closed.
FewCommands ==
    {c \in Commands :
        \/ c.kind = "GetSnapshot"
        \/ c.order.order_type = "LimitOrder" /\ c.order.quantity = 1}

EngineNextFew ==
    \/ \E command \in FewCommands : Send(command)
    \/ \E n \in 1..MaxOrders : DropReceiver(n)
    \/ DropSender
    \/ EngineRecv
    \/ EngineStop

SpecEngineFair ==
    Init /\ [][EngineNextFew]_vars /\ WF_vars(EngineRecv) /\ WF_vars(EngineStop)

\* ------------------------------------------------- vocabulary of the claims
RECURSIVE SumQty(_)
SumQty(ts) == IF ts = <<>> THEN 0 ELSE Head(ts).quantity + SumQty(Tail(ts))

RECURSIVE QueueTotal(_)
QueueTotal(q) == IF q = <<>> THEN 0 ELSE Head(q).remaining_quantity + QueueTotal(Tail(q))

RECURSIVE BookTotal(_)
BookTotal(book) ==
    IF DOMAIN book = {} THEN 0
    ELSE LET k == CHOOSE x \in DOMAIN book : TRUE
         IN  QueueTotal(book[k]) + BookTotal(MapRemove(book, k))

RestingIds(book) == UNION {{book[k][i].id : i \in 1..Len(book[k])} : k \in DOMAIN book}

Called == response.type \notin {"None", "Snapshot"}

\* the taker's own side and the side it takes from, before and after the call
OwnBefore == IF order.side = "Buy" THEN pre.bids ELSE pre.asks
OwnAfter == IF order.side = "Buy" THEN bids ELSE asks
OppBefore == IF order.side = "Buy" THEN pre.asks ELSE pre.bids
OppAfter == IF order.side = "Buy" THEN asks ELSE bids

LimitCall == Called /\ order.order_type = "LimitOrder" /\ order.price # None /\ order.quantity > 0
MarketCall == Called /\ order.order_type = "MarketOrder" /\ order.quantity > 0

\* the taker's own side with the residual of the order at the tail of its level
WithResidual ==
    LET key == price_to_key(unwrap(order.price))
        residual == [order EXCEPT !.remaining_quantity = matched.remaining_quantity]
    IN  IF key \in DOMAIN OwnBefore
        THEN [OwnBefore EXCEPT ![key] = Append(@, residual)]
        ELSE MapPut(OwnBefore, key, <<residual>>)

\* ----------------------------------------------------------------------- C1
\* C1: a Limit order with a price and quantity > 0 is answered Filled iff its
\* remaining quantity reached 0, PartiallyFilled iff it traded and has quantity
\* left, Placed iff it did not trade and has quantity left; with quantity left,
\* and only then, it is appended to the tail of the queue of its price level on
\* its own side with exactly its remaining quantity.
C1_LimitOutcome ==
    LimitCall =>
        LET rem == matched.remaining_quantity
        IN  /\ (response.type = "Filled") <=> (rem = 0)
            /\ (response.type = "PartiallyFilled") <=> (trades # <<>> /\ rem > 0)
            /\ (response.type = "Placed") <=> (trades = <<>> /\ rem > 0)
            /\ response.type \in {"Filled", "PartiallyFilled", "Placed"}
            /\ IF rem > 0 THEN OwnAfter = WithResidual ELSE OwnAfter = OwnBefore

\* a partially filled Limit order has been queued behind an earlier order
C1_Witness ==
    /\ LimitCall
    /\ response.type = "PartiallyFilled"
    /\ LET q == OwnAfter[price_to_key(unwrap(order.price))]
       IN  Len(q) >= 2 /\ q[Len(q)].id = order.id

\* ----------------------------------------------------------------------- C2
\* C2: a PartiallyFilled response reports as filled_quantity the sum of the
\* quantities of its trades, as remaining_quantity the quantity rested on the
\* book, and the two add up to the quantity of the order.
C2_PartialFillReport ==
    (LimitCall /\ response.type = "PartiallyFilled") =>
        LET q == OwnAfter[price_to_key(unwrap(order.price))]
        IN  /\ response.filled_quantity = SumQty(response.trades)
            /\ response.remaining_quantity = q[Len(q)].remaining_quantity
            /\ response.filled_quantity + response.remaining_quantity = order.quantity

\* ----------------------------------------------------------------------- C3
\* C3: a Market order of quantity Q > 0 that the opposite side can fill is
\* answered Filled with filled_quantity Q and trades that sum to Q; the
\* opposite side loses exactly Q, the own side is unchanged and the order
\* rests nowhere.
C3_MarketFilled ==
    (MarketCall /\ BookTotal(OppBefore) >= order.quantity) =>
        /\ response.type = "Filled"
        /\ response.filled_quantity = order.quantity
        /\ response.trades # <<>>
        /\ SumQty(response.trades) = order.quantity
        /\ BookTotal(OppAfter) = BookTotal(OppBefore) - order.quantity
        /\ OwnAfter = OwnBefore
        /\ order.id \notin RestingIds(bids) \cup RestingIds(asks)

\* a Market order was filled across two levels and left a maker partly filled
C3_Witness ==
    /\ MarketCall
    /\ BookTotal(OppBefore) > order.quantity
    /\ response.type = "Filled"
    /\ Len(trades) = 2
    /\ trades[1].price # trades[2].price
    /\ OppAfter # EmptyMap

\* ----------------------------------------------------------------------- C4
\* C4: a Market order with quantity > 0 that finds the opposite side empty is
\* answered Error "No matching orders available" and leaves the book unchanged.
C4_MarketOnEmptySide ==
    (MarketCall /\ OppBefore = EmptyMap) =>
        /\ response = [type |-> "Error", message |-> "No matching orders available"]
        /\ bids = pre.bids /\ asks = pre.asks /\ orders = pre.orders

\* ----------------------------------------------------------------------- C5
\* C5: a Market order of quantity Q > 0 that finds less than Q, but something,
\* on the opposite side is answered Error "Insufficient liquidity for market
\* order" without trades; the opposite side is empty afterwards and the own
\* side is unchanged.
C5_MarketInsufficient ==
    (MarketCall /\ BookTotal(OppBefore) > 0 /\ BookTotal(OppBefore) < order.quantity) =>
        /\ response = [type |-> "Error", message |-> "Insufficient liquidity for market order"]
        /\ OppAfter = EmptyMap
        /\ OwnAfter = OwnBefore

\* a Market order consumed the whole opposite side and was rejected
C5_Witness ==
    /\ MarketCall
    /\ BookTotal(OppBefore) > 0
    /\ BookTotal(OppBefore) < order.quantity
    /\ response.type = "Error"
    /\ trades # <<>>
    /\ OwnBefore # EmptyMap

\* ----------------------------------------------------------------------- C6
\* C6: every trade of a Limit taker with price P respects the limit: a Buy
\* taker trades at prices <= P, a Sell taker at prices >= P, whatever the
\* prices of taker and maker, on the tick grid or off it.
C6_LimitPriceRespected ==
    LimitCall =>
        \A i \in 1..Len(trades) :
            IF order.side = "Buy"
            THEN trades[i].price <= unwrap(order.price)
            ELSE trades[i].price >= unwrap(order.price)

\* ----------------------------------------------------------------------- C7
\* C7: on an empty book, Buy Limit Q @ P is answered Placed, and Sell Limit
\* Q @ P submitted next is answered Filled with the one trade (P, Q), leaving
\* bids and asks empty; for every P > 0 and Q > 0.
C7_SelfMatchingPair ==
    /\ (nextId = 2 /\ LimitCall /\ order.side = "Buy") =>
            /\ response = [type |-> "Placed", order_id |-> order.id]
            /\ bids = MapPut(EmptyMap, price_to_key(unwrap(order.price)), <<order>>)
    /\ (/\ nextId = 3 /\ LimitCall /\ order.side = "Sell"
        /\ pre.asks = EmptyMap
        /\ \E k \in DOMAIN pre.bids :
               /\ DOMAIN pre.bids = {k}
               /\ Len(pre.bids[k]) = 1
               /\ pre.bids[k][1].id = 1
               /\ pre.bids[k][1].remaining_quantity = pre.bids[k][1].quantity
               /\ pre.bids[k][1].price = order.price
               /\ pre.bids[k][1].quantity = order.quantity) =>
            /\ response.type = "Filled"
            /\ response.filled_quantity = order.quantity
            /\ response.trades = <<[buy_order_id |-> 1, sell_order_id |-> order.id,
                                    price |-> unwrap(order.price),
                                    quantity |-> order.quantity]>>
            /\ bids = EmptyMap
            /\ asks = EmptyMap

\* ------------------------------------------------ makers of the last call
\* the resting order a trade of the last call was made against
MakerId(t) == IF order.side = "Buy" THEN t.sell_order_id ELSE t.buy_order_id

\* where an order rested on the opposite side when the call started
LevelBefore(id) ==
    CHOOSE k \in DOMAIN OppBefore : \E i \in 1..Len(OppBefore[k]) : OppBefore[k][i].id = id
PositionBefore(id) ==
    CHOOSE i \in 1..Len(OppBefore[LevelBefore(id)]) : OppBefore[LevelBefore(id)][i].id = id
MakerBefore(id) == OppBefore[LevelBefore(id)][PositionBefore(id)]

\* a key is strictly better than another for the taker of the last call
Better(k1, k2) == IF order.side = "Buy" THEN k1 < k2 ELSE k1 > k2

\* the resting order x was filled completely by a trade before the j-th
FilledBefore(x, j) ==
    \E i \in 1..(j - 1) :
        MakerId(trades[i]) = x.id /\ trades[i].quantity = x.remaining_quantity

\* ----------------------------------------------------------------------- C8
\* C8: price priority. The trades of one call, Limit or Market, go through the
\* levels of the opposite side best key first, and a level is traded against
\* only after every order of every strictly better level was filled completely
\* and that level was removed.
C8_PricePriority ==
    Called =>
        \A j \in 1..Len(trades) :
            /\ MakerId(trades[j]) \in RestingIds(OppBefore)
            /\ \A i \in 1..(j - 1) :
                   ~Better(LevelBefore(MakerId(trades[j])), LevelBefore(MakerId(trades[i])))
            /\ \A k \in DOMAIN OppBefore :
                   Better(k, LevelBefore(MakerId(trades[j]))) =>
                       /\ k \notin DOMAIN OppAfter
                       /\ \A n \in 1..Len(OppBefore[k]) : FilledBefore(OppBefore[k][n], j)

\* a Sell taker traded on two levels of the bids, the higher one first
C8_Witness ==
    /\ Called
    /\ order.side = "Sell"
    /\ Len(trades) = 2
    /\ LevelBefore(MakerId(trades[1])) > LevelBefore(MakerId(trades[2]))

\* ----------------------------------------------------------------------- C9
\* C9: time priority. In every queue of the book the orders stand in the
\* order in which they were rested (ids are given in submission order); a
\* trade is made against an order only after every order ahead of it in its
\* queue was filled completely; and a maker that is filled only in part stays
\* at the head of its queue, with the orders behind it untouched.
ArrivalOrdered(book) ==
    \A k \in DOMAIN book :
        \A i, j \in 1..Len(book[k]) : i < j => book[k][i].id < book[k][j].id

C9_TimePriority ==
    /\ ArrivalOrdered(bids)
    /\ ArrivalOrdered(asks)
    /\ Called =>
        \A j \in 1..Len(trades) :
            LET id == MakerId(trades[j])
            IN  /\ id \in RestingIds(OppBefore)
                /\ \A n \in 1..(PositionBefore(id) - 1) :
                       FilledBefore(OppBefore[LevelBefore(id)][n], j)
                /\ trades[j].quantity < MakerBefore(id).remaining_quantity =>
                       /\ LevelBefore(id) \in DOMAIN OppAfter
                       /\ OppAfter[LevelBefore(id)] =
                            <<[MakerBefore(id) EXCEPT
                                 !.remaining_quantity = @ - trades[j].quantity]>>
                            \o SubSeq(OppBefore[LevelBefore(id)], PositionBefore(id) + 1,
                                      Len(OppBefore[LevelBefore(id)]))

\* the head of a queue of two was filled in part and is still ahead of the other
C9_Witness ==
    /\ Called
    /\ Len(trades) = 1
    /\ MakerId(trades[1]) \in RestingIds(OppBefore)
    /\ Len(OppBefore[LevelBefore(MakerId(trades[1]))]) = 2
    /\ trades[1].quantity < MakerBefore(MakerId(trades[1])).remaining_quantity
    /\ Len(OppAfter[LevelBefore(MakerId(trades[1]))]) = 2
    /\ OppAfter[LevelBefore(MakerId(trades[1]))][1].id = MakerId(trades[1])

\* ---------------------------------------------------------------------- C10
\* C10: every trade has as quantity the smaller of what the taker and the
\* maker have left when they meet, which is > 0; as price the maker's price;
\* as buy_order_id the id of the Buy order of the pair and as sell_order_id
\* the id of the Sell order, and the two ids differ.
TakerLeftBefore(j) == order.quantity - SumQty(SubSeq(trades, 1, j - 1))

C10_TradeRecord ==
    Called =>
        \A j \in 1..Len(trades) :
            /\ MakerId(trades[j]) \in RestingIds(OppBefore)
            /\ LET maker == MakerBefore(MakerId(trades[j]))
               IN  /\ \A i \in 1..(j - 1) : MakerId(trades[i]) # maker.id
                   /\ trades[j].quantity = Min(TakerLeftBefore(j), maker.remaining_quantity)
                   /\ trades[j].quantity > 0
                   /\ trades[j].price = unwrap(maker.price)
                   /\ maker.side # order.side
                   /\ trades[j].buy_order_id = (IF order.side = "Buy" THEN order.id ELSE maker.id)
                   /\ trades[j].sell_order_id = (IF order.side = "Sell" THEN order.id ELSE maker.id)
                   /\ trades[j].buy_order_id # trades[j].sell_order_id

\* a Sell Limit taker traded with a resting Buy order at the maker's higher price
C10_Witness ==
    /\ LimitCall
    /\ order.side = "Sell"
    /\ trades # <<>>
    /\ trades[1].price > unwrap(order.price)
    /\ trades[1].buy_order_id # order.id
    /\ trades[1].sell_order_id = order.id

\* ---------------------------------------------------------------------- C11
\* C11: in every book state get_snapshot returns one (price, quantity) pair
\* per occupied level, bids in strictly descending and asks in strictly
\* ascending price order, each quantity the sum of remaining_quantity over the
\* queue of the level; and it leaves bids, asks and the id index unchanged.
LevelPairs(book) == {<<key_to_price(k), QueueTotal(book[k])>> : k \in DOMAIN book}

C11_Snapshot ==
    response.type = "Snapshot" =>
        /\ Len(response.bids) = Cardinality(DOMAIN bids)
        /\ {response.bids[i] : i \in 1..Len(response.bids)} = LevelPairs(bids)
        /\ \A i, j \in 1..Len(response.bids) :
               i < j => response.bids[i][1] > response.bids[j][1]
        /\ Len(response.asks) = Cardinality(DOMAIN asks)
        /\ {response.asks[i] : i \in 1..Len(response.asks)} = LevelPairs(asks)
        /\ \A i, j \in 1..Len(response.asks) :
               i < j => response.asks[i][1] < response.asks[j][1]
        /\ bids = pre.bids
        /\ asks = pre.asks
        /\ orders = pre.orders

\* a snapshot of two bid levels, one of them holding two orders
C11_Witness ==
    /\ response.type = "Snapshot"
    /\ Len(response.bids) = 2
    /\ \E k \in DOMAIN bids : Len(bids[k]) = 2

\* ---------------------------------------------------------------------- C12
\* C12: a Limit order of quantity Q > 0 at price P that cannot match (the
\* opposite side is empty, or the price of its best level is strictly worse
\* than P for the taker) is answered Placed, and the snapshot after the call
\* differs from the snapshot before it only in Q more quantity at the level of
\* P on the taker's side; the opposite side of the snapshot is the same.
BestOppositePrice ==
    IF order.side = "Buy"
    THEN key_to_price(CHOOSE k \in DOMAIN OppBefore : \A x \in DOMAIN OppBefore : k <= x)
    ELSE key_to_price(CHOOSE k \in DOMAIN OppBefore : \A x \in DOMAIN OppBefore : k >= x)

CannotMatch ==
    \/ OppBefore = EmptyMap
    \/ /\ OppBefore # EmptyMap
       /\ IF order.side = "Buy"
          THEN BestOppositePrice > unwrap(order.price)
          ELSE BestOppositePrice < unwrap(order.price)

SnapshotBefore == get_snapshot(pre.bids, pre.asks)
SnapshotAfter == get_snapshot(bids, asks)
PairsOf(list) == {list[i] : i \in 1..Len(list)}
QuantityAt(pairs, price) ==
    IF \E x \in pairs : x[1] = price THEN (CHOOSE x \in pairs : x[1] = price)[2] ELSE 0

C16_LimitWithoutPrice ==
    (Called /\ order.order_type = "LimitOrder" /\ order.price = None) =>
        /\ response = [type |-> "Error", message |-> "limit order must have price"]
        /\ trades = <<>>
        /\ matched = order
        /\ bids = pre.bids
        /\ asks = pre.asks
        /\ orders = pre.orders

\* a priceless Limit order was rejected while the side it would take from held orders
C16_Witness ==
    /\ Called
    /\ order.order_type = "LimitOrder"
    /\ order.price = None
    /\ order.quantity > 0
    /\ OppBefore # EmptyMap
    /\ response.type = "Error"

\* ---------------------------------------------------------------------- C17
\* C17: after every command every queue of bids and asks is non-empty and
\* holds only Limit orders of that side with remaining_quantity > 0 whose
\* price quantizes to the key of the queue; so a key is in a side's map iff
\* an order rests at that level, and no Market order rests on the book.
WellFiled(book, side) ==
    \A k \in DOMAIN book :
        /\ book[k] # <<>>
        /\ \A i \in 1..Len(book[k]) :
               /\ book[k][i].order_type = "LimitOrder"
               /\ book[k][i].side = side
               /\ book[k][i].remaining_quantity > 0
               /\ book[k][i].price # None
               /\ (unwrap(book[k][i].price) * Scale) \div (Scale * SubTick) = k

C17_QueuesWellFiled ==
    /\ WellFiled(bids, "Buy")
    /\ WellFiled(asks, "Sell")

\* both sides hold orders after a call that emptied a level and removed it
C17_Witness ==
    /\ Called
    /\ bids # EmptyMap
    /\ asks # EmptyMap
    /\ \E k \in DOMAIN OppBefore : k \notin DOMAIN OppAfter

\* ---------------------------------------------------------------------- C18
\* C18: after every command the id index holds exactly the ids of the orders
\* resting in bids or asks.
C18_IndexMatchesBook ==
    DOMAIN orders = RestingIds(bids) \cup RestingIds(asks)

\* ---------------------------------------------------------------------- C19
\* C19: quantity conservation. For an order submitted with remaining_quantity
\* = quantity, the trades of the walk sum to at most the quantity of the order,
\* to exactly the quantity minus what the order has left after the walk, and
\* to exactly what the resting orders of the opposite side lost; no resting
\* order's remaining_quantity ever grows or falls below 0.
RestingOrders(book) == UNION {{book[k][i] : i \in 1..Len(book[k])} : k \in DOMAIN book}

NeverGrows(before, after) ==
    \A x \in RestingOrders(after) :
        /\ x.remaining_quantity >= 0
        /\ x.remaining_quantity <= x.quantity
        /\ \A y \in RestingOrders(before) :
               y.id = x.id => x.remaining_quantity <= y.remaining_quantity

C19_QuantityConservation ==
    /\ NeverGrows(pre.bids, bids)
    /\ NeverGrows(pre.asks, asks)
    /\ (Called /\ order.remaining_quantity = order.quantity) =>
           /\ SumQty(trades) <= order.quantity
           /\ SumQty(trades) = order.quantity - matched.remaining_quantity
           /\ SumQty(trades) = BookTotal(OppBefore) - BookTotal(OppAfter)
           /\ matched.remaining_quantity >= 0

\* a walk over two makers that left the second one with part of its quantity
C19_Witness ==
    /\ Called
    /\ Len(trades) = 2
    /\ SumQty(trades) = order.quantity
    /\ BookTotal(OppAfter) > 0
    /\ BookTotal(OppBefore) - BookTotal(OppAfter) = SumQty(trades)

\* ---------------------------------------------------------------------- C20
\* C20: the book is never crossed or locked: after every command, if bids and
\* asks are both non-empty, the highest bid key is below the lowest ask key.
C20_NeverCrossed ==
    (bids # EmptyMap /\ asks # EmptyMap) =>
        \A kb \in DOMAIN bids : \A ka \in DOMAIN asks : kb < ka

\* ------------------------------------------------- sequential execution
\* the book and the replies obtained by applying add_order / get_snapshot to
\* the commands one after the other, starting from an empty book
RECURSIVE Replay(_)
Replay(cmds) ==
    IF cmds = <<>>
    THEN [bids |-> EmptyMap, asks |-> EmptyMap, orders |-> EmptyMap, replies |-> <<>>]
    ELSE LET s0 == Replay(SubSeq(cmds, 1, Len(cmds) - 1))
             c == cmds[Len(cmds)]
         IN  IF c.kind = "AddOrder"
             THEN LET r == add_order(s0.bids, s0.asks, s0.orders, c.order)
                  IN  [bids |-> r.bids, asks |-> r.asks, orders |-> r.orders,
                       replies |-> Append(s0.replies, r.response)]
             ELSE LET snapshot == get_snapshot(s0.bids, s0.asks)
                  IN  [s0 EXCEPT !.replies =
                          Append(@, [type |-> "Snapshot", bids |-> snapshot.bids,
                                     asks |-> snapshot.asks])]

BookIsReplayOf(cmds) ==
    LET sequential == Replay(cmds)
    IN  /\ bids = sequential.bids
        /\ asks = sequential.asks
        /\ orders = sequential.orders

\* ---------------------------------------------------------------------- C13
\* C13: every command enqueued is executed exactly once and in enqueue order;
\* the book and every reply are those of applying add_order / get_snapshot
\* one after the other in that order to an empty book; and each reply is
\* delivered on the one-shot channel of the command that caused it (a channel
\* whose command is still queued, or whose receiver was dropped, holds none).
C13_Linearized ==
    /\ executed \o inbound = sent
    /\ \A n \in 1..Len(sent) : sent[n].response = n
    /\ Len(oneshot) = Len(sent)
    /\ LET sequential == Replay(executed)
       IN  /\ bids = sequential.bids
           /\ asks = sequential.asks
           /\ orders = sequential.orders
           /\ \A n \in 1..Len(sent) :
                  oneshot[n].value =
                      IF n <= Len(executed) /\ oneshot[n].rx = "open"
                      THEN Some(sequential.replies[n])
                      ELSE None

\* two commands were executed and answered, the second one trading with the
\* first, while a third waits in the channel
C13_Witness ==
    /\ Len(executed) = 2
    /\ Len(inbound) = 1
    /\ trades # <<>>
    /\ oneshot[1].value # None
    /\ oneshot[2].value = Some(response)
    /\ oneshot[3] = NewOneshot

\* ---------------------------------------------------------------------- C14
\* C14: a command whose reply receiver was dropped before the engine replied
\* is executed in full all the same; its reply is discarded; and the engine
\* goes on, executing and answering the commands after it.
DroppedAndExecuted(n) == n \in 1..Len(executed) /\ oneshot[executed[n].response].rx = "dropped"

C14_DroppedReceiver ==
    (\E n \in 1..Len(executed) : DroppedAndExecuted(n)) =>
        LET sequential == Replay(executed)
        IN  /\ BookIsReplayOf(executed)
            /\ engine = "done" => (inbound = <<>> /\ senders = 0)
            /\ \A n \in 1..Len(executed) :
                   DroppedAndExecuted(n) =>
                       /\ oneshot[executed[n].response].value = None
                       /\ \A m \in (n + 1)..Len(executed) :
                              oneshot[executed[m].response].rx = "open" =>
                                  oneshot[executed[m].response].value =
                                      Some(sequential.replies[m])

\* an order whose receiver was dropped rested on the book, and the next
\* command traded with it and got its reply
C14_Witness ==
    /\ Len(executed) = 2
    /\ DroppedAndExecuted(1)
    /\ executed[1].kind = "AddOrder"
    /\ trades # <<>>
    /\ \E t \in {trades[i] : i \in 1..Len(trades)} :
           executed[1].order.id \in {t.buy_order_id, t.sell_order_id}
    /\ oneshot[2].value = Some(response)

\* ---------------------------------------------------------------------- C15
\* C15: the engine loop ends only when every Sender is dropped and no command
\* is queued, after it has executed every command enqueued and answered every
\* one whose receiver is still held; and once every Sender is dropped it
\* eventually ends.
Terminated == engine = "done"

AllDone ==
    /\ senders = 0
    /\ inbound = <<>>
    /\ executed = sent
    /\ \A n \in DOMAIN oneshot : oneshot[n].rx = "open" => oneshot[n].value # None

C15_Termination ==
    /\ [](Terminated => AllDone)
    /\ (senders = 0) ~> Terminated

\* the loop ended after executing two commands
C15_Witness ==
    /\ Terminated
    /\ Len(executed) >= 2
    /\ oneshot[2].value # None

=============================================================================
